---- MODULE Spec2Model ----
(***************************************************************************)
(* The snake game of src/src/components/TerminalCard.tsx (SnakeGame).      *)
(* State: the six useState cells of the component as last committed, the   *)
(* state updates queued by timer callbacks and not yet rendered, the       *)
(* zero-delay timeouts moveSnake has scheduled, the closure of the keydown *)
(* listener and the period of the interval the effects have registered,    *)
(* whether a commit is waiting for its effects, whether React holds        *)
(* updates of the component it has not rendered (lanes), the high score    *)
(* the caller holds (highScore) and the highScore prop of the last commit  *)
(* (highScoreProp), and whether the component is mounted.                  *)
(* One step of the model is one task of the host's event loop, and the     *)
(* host may run the tasks that are due in any order: an interval callback  *)
(* may fire while a render, a timeout or the effects of a commit are still *)
(* outstanding (a main thread busy for longer than the period).            *)
(*   Tick          an interval callback: it calls setSnake(updater); the   *)
(*                 updater runs in the callback when React holds no        *)
(*                 unrendered update of the component, else in the render; *)
(*   Render        React runs the effects still outstanding, renders the   *)
(*                 queued updates and commits them: the updaters that did  *)
(*                 not run in their callback run here;                     *)
(*   FlushEffects  the effects of that commit run: the keydown listener    *)
(*                 and the interval are replaced;                          *)
(*   RunTimeout    the body of a zero-delay timeout: it queues updates;    *)
(*   KeyDown       a keydown event: the registered listener runs and its   *)
(*                 updates are rendered and their effects run before the   *)
(*                 event ends (a discrete event).                          *)
(* Four further specifications share the module: SpecGrown takes the game  *)
(* up in a state it reaches after two foods, SpecFull in one where the     *)
(* snake fills the grid but for one cell, SpecSpeed evaluates              *)
(* currentSpeed on pairs of scores, SpecTerminal is the command line of    *)
(* TerminalCard (its input history).                                       *)
(***************************************************************************)
EXTENDS Integers, Sequences, FiniteSets

\* ---------------------------------------------------------------- constants
GRID_WIDTH == 30
GRID_HEIGHT == 15
INITIAL_SPEED == 150
MIN_SPEED == 60
SPEED_DECREASE_PER_FOOD == 5

\* ------------------------------------------------------------------- bounds
\* Interval callbacks followed since the component was mounted.
MaxTicks == 5
\* An interval callback is followed while fewer than this many queued updates
\* and scheduled timeouts are outstanding.
MaxOutstanding == 2
\* Interval callbacks SpecGrown follows from the state it takes the game up in.
MaxGrownTicks == 2
\* Interval callbacks SpecFull follows from the state it takes the game up in.
MaxFullTicks == 2
\* SpecSpeed evaluates currentSpeed on the scores 0, 10, ..., 10 * MaxSpeedFoods.
MaxSpeedFoods == 30
\* SpecTerminal executes at most this many commands that inputHistory records.
MaxHistory == 3

VARIABLES snake, food, direction, gameOver, score, isPaused,
          highScore, onHighScoreCalls, timeouts, ticks,
          mounted, interval, highScoreProp,
          pending, effectsPending, listener, closure, lanes,
          speedArgs, speedOut,
          commandHistory, currentCommand, inputHistory, historyIndex

\* The state of the mounted game, of React's work on it and of its callbacks.
\* lanes: React holds updates of the component it has not rendered, queued
\* ones or those it still records on the fiber the last render replaced
\* (fiber.lanes or alternate.lanes is not NoLanes); a setter called then
\* queues its update for the render, and one called otherwise computes the
\* new state at once.
gameVars == <<snake, food, direction, gameOver, score, isPaused,
              highScore, onHighScoreCalls, timeouts, ticks,
              mounted, interval, highScoreProp,
              pending, effectsPending, listener, closure, lanes>>

\* The scores currentSpeed is evaluated on and the speeds it returned.
speedVars == <<speedArgs, speedOut>>

\* The useState cells of TerminalCard that its command line uses.
termVars == <<commandHistory, currentCommand, inputHistory, historyIndex>>

vars == <<gameVars, speedVars, termVars>>

game == <<snake, food, direction, gameOver, score, isPaused>>

\* ------------------------------------------------------------------- types
Direction == {"UP", "DOWN", "LEFT", "RIGHT"}

Position(px, py) == [x |-> px, y |-> py]

\* The keys pressed in the model: exit, restart (r, R), pause, the arrows, their
\* WASD equivalents and a key the game does not bind.
Keys == {"Escape", "r", "R", "p",
         "ArrowUp", "ArrowDown", "ArrowLeft", "ArrowRight",
         "w", "s", "a", "d", "x"}

\* The high score the caller holds when the game is mounted.
InitialHighScores == {0}

\* ------------------------------------------------------------ initial state
InitialSnake == <<Position(15, 7)>>
InitialFood == Position(20, 7)
InitialDirection == "RIGHT"

\* --------------------------------------------------------------- moveSnake
\* prevSnake.some((segment) => segment.x === p.x && segment.y === p.y)
Some(s, p) == \E i \in 1..Len(s) : s[i].x = p.x /\ s[i].y = p.y

\* switch (direction) of moveSnake
NewHead(head, dir) ==
  CASE dir = "UP" -> Position(head.x, head.y - 1)
    [] dir = "DOWN" -> Position(head.x, head.y + 1)
    [] dir = "LEFT" -> Position(head.x - 1, head.y)
    [] dir = "RIGHT" -> Position(head.x + 1, head.y)

\* moveSnake without its wall test
WallCollisionSkipped(newHead) == FALSE

WallCollision(newHead) ==
  \/ newHead.x < 0
  \/ newHead.x >= GRID_WIDTH
  \/ newHead.y < 0
  \/ newHead.y >= GRID_HEIGHT

\* newSnake.pop()
Pop(s) == SubSeq(s, 1, Len(s) - 1)

\* the self-collision test leaving out the tail, which a normal move vacates
SelfCollisionExceptTail(prevSnake, newHead) == Some(Pop(prevSnake), newHead)

\* moveSnake without its self-collision test
SelfCollisionSkipped(prevSnake, newHead) == FALSE

SelfCollision(prevSnake, newHead) == Some(prevSnake, newHead)

FinalScore(prevSnake) == Len(prevSnake) * 10 - 10

FoodCollision(newHead, f) == newHead.x = f.x /\ newHead.y = f.y

\* const newSnake = [newHead, ...prevSnake]; pop unless the food is eaten
NewSnake(prevSnake, newHead, f) ==
  LET newSnake == <<newHead>> \o prevSnake
  IN IF FoodCollision(newHead, f) THEN newSnake ELSE Pop(newSnake)

\* ------------------------------------------------------------- setTimeout
\* The closure of a zero-delay timeout: what it captured when moveSnake's
\* updater scheduled it.
NoSnake == <<>>

GameOverTimeout(finalScore, hs) ==
  [kind |-> "gameOver", finalScore |-> finalScore, highScore |-> hs,
   snake |-> NoSnake]

\* the timeout whose generateFood sees the snake the updater has just grown
FoodTimeoutOfGrownSnake(closureSnake, newSnake) ==
  [kind |-> "food", finalScore |-> 0, highScore |-> 0, snake |-> newSnake]

\* generateFood is the callback of the render the interval was created in: it
\* closes over that render's snake, not over the updater's newSnake.
FoodTimeout(closureSnake, newSnake) ==
  [kind |-> "food", finalScore |-> 0, highScore |-> 0, snake |-> closureSnake]

\* ------------------------------------------------------------ generateFood
\* The cells Math.random can draw: x in 0..GRID_WIDTH-1, y in 0..GRID_HEIGHT-1.
Draws ==
  {Position(px, py) : px \in 0..(GRID_WIDTH - 1), py \in 0..(GRID_HEIGHT - 1)}

\* do { newFood = draw } while (snake.some(...)): the cells the loop can
\* return, snake being the snake the callback closes over
generateFood(closureSnake, draws) ==
  {c \in draws : ~Some(closureSnake, c)}

\* ----------------------------------------------------------- handleKeyDown
IsExitKey(k) == k \in {"Escape", "q", "Q"}
IsRestartKey(k) == k \in {"r", "R"}
IsPauseKey(k) == k \in {"p", "P"}

\* the switch (e.key) of handleKeyDown: the direction a key asks for
KeyDirection(k) ==
  CASE k \in {"ArrowUp", "w", "W"} -> "UP"
    [] k \in {"ArrowDown", "s", "S"} -> "DOWN"
    [] k \in {"ArrowLeft", "a", "A"} -> "LEFT"
    [] k \in {"ArrowRight", "d", "D"} -> "RIGHT"
    [] OTHER -> "NONE"

\* handleKeyDown without its guards on the current direction
AcceptsAny(dir, requested) == requested \in Direction

\* if (direction !== "DOWN") setDirection("UP") and its three siblings
Accepts(dir, requested) ==
  CASE requested = "UP" -> dir # "DOWN"
    [] requested = "DOWN" -> dir # "UP"
    [] requested = "LEFT" -> dir # "RIGHT"
    [] requested = "RIGHT" -> dir # "LEFT"
    [] OTHER -> FALSE

\* ------------------------------------------------------------ currentSpeed
Max(a, b) == IF a >= b THEN a ELSE b

\* currentSpeed without the floor MIN_SPEED
currentSpeedUnfloored(sc) ==
  INITIAL_SPEED - (sc \div 10) * SPEED_DECREASE_PER_FOOD

\* Math.max(MIN_SPEED, INITIAL_SPEED - Math.floor(score / 10) * SPEED_DECREASE_PER_FOOD)
currentSpeed(sc) ==
  Max(MIN_SPEED, INITIAL_SPEED - (sc \div 10) * SPEED_DECREASE_PER_FOOD)

\* ----------------------------------------------------------------- effects
\* The handleKeyDown the keydown effect has registered closes over the
\* gameOver and the direction of the render the effect ran for.
ListenerOf(over, dir) == [gameOver |-> over, direction |-> dir]

\* No listener is registered.
NoListener == [gameOver |-> FALSE, direction |-> "NONE"]

\* No interval is held.
NoInterval == 0

\* if (gameOver || isPaused) return;  -- no interval exists otherwise
IntervalActive == ~(gameOver \/ isPaused)

\* The dependency list of the interval effect: [direction, food, gameOver,
\* isPaused, generateFood, currentSpeed, highScore, onHighScore]. React
\* compares them with Object.is: generateFood is new whenever the snake array
\* is, food whenever setFood stored an object; objectSet says that the commit
\* stored a new snake array or food object, equal to the old one or not.
\* highScore is the prop of the commit. The dependencies of the keydown effect
\* (direction, gameOver) are among them.
DepsChanged(objectSet) ==
  \/ objectSet
  \/ direction' # direction
  \/ food' # food
  \/ gameOver' # gameOver
  \/ isPaused' # isPaused
  \/ snake' # snake
  \/ currentSpeed(score') # currentSpeed(score)
  \/ highScoreProp' # highScoreProp

\* Whether a render gave some useState cell a state that is not (Object.is)
\* the state it had; objectSet as above. A render that changed none, with
\* the props it had, is dropped by React without a commit.
StateChanged(objectSet) ==
  \/ objectSet
  \/ game' # game

\* The interval effect when the effects of a commit run, active and sc being
\* ~(gameOver || isPaused) and the score of that commit: its cleanup clears
\* the interval when a dependency changed or the component unmounts, and it
\* creates a new one at currentSpeed unless the game is over or paused.
gameInterval(depsChanged, active, sc) ==
  interval' = IF ~mounted' \/ ~active
              THEN NoInterval
              ELSE IF depsChanged \/ interval = NoInterval
              THEN currentSpeed(sc)
              ELSE interval

\* What moveSnake, the callback of the interval, closes over: direction, food,
\* highScore and generateFood (whose snake is the snake of that render) of the
\* render the interval effect ran for.
ClosureOf(dir, f, hs, s) ==
  [direction |-> dir, food |-> f, highScore |-> hs, snake |-> s]

\* No interval is held, so no moveSnake is its callback.
NoClosure == [direction |-> "NONE", food |-> Position(0, 0), highScore |-> 0,
              snake |-> <<>>]

\* The moveSnake the interval effect passes to setInterval when it runs for
\* a commit; c is the closure of that commit.
moveSnakeClosure(active, c) ==
  closure' = IF ~mounted' \/ ~active THEN NoClosure ELSE c

\* ------------------------------------------------------------ state updates
\* The updates a timer callback queues; React renders them in a later task.
\* setSnake(updater) called while React holds unrendered updates of the
\* component: the updater runs in the render.
SetSnake(cl) ==
  [kind |-> "setSnake", closure |-> cl, hasEagerState |-> FALSE,
   eagerState |-> NoSnake]

\* setSnake(updater) called while React holds none: the updater has run in
\* the call and the render takes the snake it returned (eagerState).
SetSnakeEagerly(cl, newSnake) ==
  [kind |-> "setSnake", closure |-> cl, hasEagerState |-> TRUE,
   eagerState |-> newSnake]

SetGameOver == [kind |-> "setGameOver"]
SetScore == [kind |-> "setScore"]
SetFood(newFood) == [kind |-> "setFood", food |-> newFood]

\* resetGame called while updates of timer callbacks are queued: React has
\* skipped those updates in the render of the key press and processes them
\* later from the state before the skipped update (Rebase), followed by the
\* updates of resetGame once more (ResetUpdates).
Rebase(baseSnake) == [kind |-> "rebase", snake |-> baseSnake]
ResetUpdates == [kind |-> "reset"]

\* setScore((prev) => prev + 10)
ScorePlusTen(prev) == prev + 10

\* The updater moveSnake passes to setSnake: the snake it returns, whether
\* that is a new array (newSnake) or prevSnake itself, and the timeouts it
\* schedules.
moveSnake(prevSnake, cl) ==
  LET newHead == NewHead(prevSnake[1], cl.direction)
      newSnake == NewSnake(prevSnake, newHead, cl.food)
  IN IF WallCollision(newHead) \/ SelfCollision(prevSnake, newHead)
     THEN [snake |-> prevSnake,
           moved |-> FALSE,
           scheduled |-> <<GameOverTimeout(FinalScore(prevSnake),
                                           cl.highScore)>>]
     ELSE [snake |-> newSnake,
           moved |-> TRUE,
           scheduled |-> IF FoodCollision(newHead, cl.food)
                         THEN <<FoodTimeout(cl.snake, newSnake)>>
                         ELSE <<>>]

\* React processes the queued updates in the order they were queued. The
\* updater of a setSnake runs here unless it ran in its callback.
RECURSIVE Reduce(_, _)
Reduce(st, queue) ==
  IF queue = <<>>
  THEN st
  ELSE LET u == Head(queue)
           next ==
             CASE u.kind = "setSnake" /\ u.hasEagerState ->
                    [st EXCEPT !.snake = u.eagerState, !.snakeSet = TRUE]
               [] u.kind = "setSnake" /\ ~u.hasEagerState ->
                    LET moved == moveSnake(st.snake, u.closure)
                    IN [st EXCEPT !.snake = moved.snake,
                                  !.timeouts = st.timeouts \o moved.scheduled,
                                  !.snakeSet = @ \/ moved.moved]
               [] u.kind = "setGameOver" -> [st EXCEPT !.gameOver = TRUE]
               [] u.kind = "setScore" -> [st EXCEPT !.score = ScorePlusTen(@)]
               [] u.kind = "setFood" ->
                    [st EXCEPT !.food = u.food, !.foodSet = TRUE]
               [] u.kind = "rebase" -> [st EXCEPT !.snake = u.snake]
               [] u.kind = "reset" ->
                    [st EXCEPT !.snake = InitialSnake, !.food = InitialFood,
                               !.gameOver = FALSE, !.score = 0,
                               !.foodSet = FALSE, !.snakeSet = FALSE]
       IN Reduce(next, Tail(queue))

\* ------------------------------------------------------------------- Init
\* The game as mounted, its effects run. The fiber of a mounted component has
\* no lanes and no alternate.
InitGame ==
  /\ snake = InitialSnake
  /\ food = InitialFood
  /\ direction = InitialDirection
  /\ gameOver = FALSE
  /\ score = 0
  /\ isPaused = FALSE
  /\ highScore \in InitialHighScores
  /\ onHighScoreCalls = <<>>
  /\ timeouts = <<>>
  /\ ticks = 0
  /\ mounted = TRUE
  /\ interval = currentSpeed(0)
  /\ highScoreProp = highScore
  /\ pending = <<>>
  /\ effectsPending = FALSE
  /\ listener = ListenerOf(FALSE, InitialDirection)
  /\ closure = ClosureOf(InitialDirection, InitialFood, highScore,
                         InitialSnake)
  /\ lanes = FALSE

\* currentSpeed has not been evaluated outside the game.
InitSpeedIdle ==
  /\ speedArgs = <<0, 0>>
  /\ speedOut = <<>>

\* TerminalCard as mounted: useState([]), useState(""), useState(-1)
InitTerminal ==
  /\ commandHistory = <<>>
  /\ currentCommand = <<>>
  /\ inputHistory = <<>>
  /\ historyIndex = -1

Init == InitGame /\ InitSpeedIdle /\ InitTerminal

\* ---------------------------------------------------------------- actions
\* The updates timer callbacks have queued and the timeouts scheduled that
\* have not run.
Outstanding ==
  Len(SelectSeq(pending, LAMBDA u : u.kind \notin {"rebase", "reset"}))
    + Len(timeouts)

\* What a callback of the interval does besides counting the tick: it calls
\* setSnake(updater) with the updater of the moveSnake the interval was
\* created with. The interval fires whenever it is held. While React holds
\* unrendered updates of the component the updater is queued for the render.
\* While it holds none, setSnake runs the updater at once on the committed
\* snake: the updater schedules its timeout in the callback, and the update is
\* queued with the snake it returned, or dropped when it returned prevSnake.
IntervalCallback ==
  /\ interval # NoInterval
  /\ Outstanding < MaxOutstanding
  /\ IF lanes
     THEN /\ pending' = Append(pending, SetSnake(closure))
          /\ UNCHANGED <<timeouts, lanes>>
     ELSE LET moved == moveSnake(snake, closure)
          IN /\ timeouts' = timeouts \o moved.scheduled
             /\ pending' = IF moved.moved
                           THEN Append(pending,
                                       SetSnakeEagerly(closure, moved.snake))
                           ELSE pending
             /\ lanes' = moved.moved
  /\ UNCHANGED <<game, highScore, onHighScoreCalls, mounted,
                 interval, highScoreProp, effectsPending, listener, closure>>
  /\ UNCHANGED <<speedVars, termVars>>

\* The interval callback moveSnake.
Tick ==
  /\ ticks < MaxTicks
  /\ ticks' = ticks + 1
  /\ IntervalCallback

\* React's render of the queued updates and its commit. The effects of the
\* commit before, if they have not run, run first. An updater of moveSnake
\* that did not run in its callback runs in the render and schedules its
\* timeout; the caller, whose onHighScore has recorded a new high score,
\* passes it as the highScore prop of this render; the effects of this commit
\* are left for a later task. After a render that changed a state or a prop
\* React still holds the lanes of its updates on the fiber it has replaced;
\* after one that changed nothing, or had no update of the component, it
\* holds none.
Render ==
  /\ mounted
  /\ pending # <<>> \/ highScore # highScoreProp
  /\ UNCHANGED <<onHighScoreCalls, ticks, mounted>>
  /\ highScoreProp' = highScore
  /\ IF effectsPending
     THEN /\ listener' = ListenerOf(gameOver, direction)
          /\ gameInterval(TRUE, IntervalActive, score)
          /\ moveSnakeClosure(IntervalActive,
                              ClosureOf(direction, food, highScoreProp, snake))
     ELSE UNCHANGED <<listener, interval, closure>>
  /\ LET st == Reduce([snake |-> snake, food |-> food, gameOver |-> gameOver,
                       score |-> score, timeouts |-> timeouts,
                       foodSet |-> FALSE, snakeSet |-> FALSE], pending)
     IN /\ snake' = st.snake
        /\ food' = st.food
        /\ gameOver' = st.gameOver
        /\ score' = st.score
        /\ timeouts' = st.timeouts
        /\ UNCHANGED <<direction, isPaused, highScore>>
        /\ effectsPending' = DepsChanged(st.foodSet \/ st.snakeSet)
        /\ lanes' = /\ pending # <<>>
                    /\ \/ StateChanged(st.foodSet \/ st.snakeSet)
                       \/ highScoreProp' # highScoreProp
  /\ pending' = <<>>
  /\ UNCHANGED <<speedVars, termVars>>

\* The effects of the last commit: the keydown effect registers a listener
\* closing over the committed gameOver and direction, the interval effect
\* replaces the interval and its moveSnake.
FlushEffects ==
  /\ mounted
  /\ effectsPending
  /\ effectsPending' = FALSE
  /\ listener' = ListenerOf(gameOver, direction)
  /\ UNCHANGED <<game, highScore, onHighScoreCalls, timeouts, ticks, mounted,
                 highScoreProp, pending, lanes>>
  /\ UNCHANGED <<speedVars, termVars>>
  /\ gameInterval(TRUE, IntervalActive, score)
  /\ moveSnakeClosure(IntervalActive,
                      ClosureOf(direction, food, highScoreProp, snake))

\* The caller's onHighScore: it records the new high score, which the game
\* gets as its highScore prop in the render that follows.
OnHighScore(v) ==
  /\ onHighScoreCalls' = Append(onHighScoreCalls, v)
  /\ highScore' = v

\* The caller's onExit: it unmounts the game.
OnExit == mounted' = FALSE

\* The body of a setTimeout(..., 0) scheduled by moveSnake's updater. The
\* timeout is not cleared by any cleanup: it runs after an unmount too, where
\* the state setters do nothing. setGameOver(true) in a game that is over is
\* dropped while React holds no unrendered update of the component.
RunTimeout ==
  /\ timeouts # <<>>
  /\ timeouts' = Tail(timeouts)
  /\ UNCHANGED <<game, ticks, mounted, interval, highScoreProp,
                 effectsPending,
                 listener, closure>>
  /\ UNCHANGED <<speedVars, termVars>>
  /\ LET t == Head(timeouts)
     IN IF t.kind = "gameOver"
        THEN /\ pending' = IF mounted /\ (lanes \/ ~gameOver)
                           THEN Append(pending, SetGameOver)
                           ELSE pending
             /\ lanes' = (lanes \/ (mounted /\ ~gameOver))
             /\ IF t.finalScore > t.highScore
                THEN OnHighScore(t.finalScore)
                ELSE UNCHANGED <<highScore, onHighScoreCalls>>
        ELSE /\ \E newFood \in generateFood(t.snake, Draws) :
                  pending' = IF mounted
                             THEN pending \o <<SetScore, SetFood(newFood)>>
                             ELSE pending
             /\ lanes' = (lanes \/ mounted)
             /\ UNCHANGED <<highScore, onHighScoreCalls>>

\* resetGame without setScore(0)
resetGameKeepingScore ==
  /\ snake' = <<Position(15, 7)>>
  /\ food' = Position(20, 7)
  /\ direction' = "RIGHT"
  /\ gameOver' = FALSE
  /\ score' = score
  /\ isPaused' = FALSE

resetGame ==
  /\ snake' = <<Position(15, 7)>>
  /\ food' = Position(20, 7)
  /\ direction' = "RIGHT"
  /\ gameOver' = FALSE
  /\ score' = 0
  /\ isPaused' = FALSE

\* handleKeyDown restarting on r in every state of the game
handleKeyDownRestartingAnytime(k) ==
  IF IsExitKey(k)
  THEN UNCHANGED game
  ELSE IF IsRestartKey(k)
  THEN resetGame
  ELSE IF listener.gameOver
  THEN UNCHANGED game
  ELSE IF IsPauseKey(k)
  THEN isPaused' = ~isPaused /\ UNCHANGED <<snake, food, direction, gameOver, score>>
  ELSE /\ direction' = IF Accepts(listener.direction, KeyDirection(k))
                       THEN KeyDirection(k)
                       ELSE direction
       /\ UNCHANGED <<snake, food, gameOver, score, isPaused>>

\* The state cells the registered handleKeyDown sets; gameOver and direction
\* are those of its closure. Its call of onExit is in KeyPress.
handleKeyDown(k) ==
  IF IsExitKey(k)
  THEN UNCHANGED game
  ELSE IF listener.gameOver
  THEN IF IsRestartKey(k) THEN resetGame ELSE UNCHANGED game
  ELSE IF IsPauseKey(k)
  THEN isPaused' = ~isPaused /\ UNCHANGED <<snake, food, direction, gameOver, score>>
  ELSE /\ direction' = IF Accepts(listener.direction, KeyDirection(k))
                       THEN KeyDirection(k)
                       ELSE direction
       /\ UNCHANGED <<snake, food, gameOver, score, isPaused>>

\* Whether the registered handleKeyDown calls a state setter for the key.
callsSetter(k) ==
  /\ ~IsExitKey(k)
  /\ IF listener.gameOver
     THEN IsRestartKey(k)
     ELSE IsPauseKey(k) \/ Accepts(listener.direction, KeyDirection(k))

\* A keydown event on window while the listener is registered. The updates of
\* a keydown are rendered, and the effects run, before the event ends; the
\* updates timer callbacks have queued are not part of that render: they stay
\* queued, and after resetGame they are rebased. A handler that calls no
\* setter causes no render; setDirection with the direction already set
\* causes none either while React holds no unrendered update of the component,
\* and otherwise a render that runs the effects still outstanding and commits
\* nothing. The unmount drops the queued updates and runs the cleanups of
\* both effects.
KeyPress(k) ==
  /\ mounted
  /\ handleKeyDown(k)
  /\ IF IsExitKey(k) THEN OnExit ELSE UNCHANGED mounted
  /\ UNCHANGED <<highScore, onHighScoreCalls, timeouts, ticks,
                 highScoreProp>>
  /\ UNCHANGED <<speedVars, termVars>>
  /\ LET reset == listener.gameOver /\ IsRestartKey(k)
     IN IF ~mounted'
        THEN /\ pending' = <<>>
             /\ effectsPending' = FALSE
             /\ lanes' = FALSE
             /\ listener' = NoListener
             /\ gameInterval(TRUE, FALSE, score')
             /\ moveSnakeClosure(FALSE, NoClosure)
        ELSE IF callsSetter(k) /\ (lanes \/ StateChanged(reset))
        THEN /\ pending' = IF reset /\ pending # <<>>
                           THEN <<Rebase(snake)>> \o pending \o <<ResetUpdates>>
                           ELSE pending
             /\ effectsPending' = FALSE
             /\ lanes' = (StateChanged(reset) \/ pending # <<>>)
             /\ IF effectsPending \/ DepsChanged(reset)
                THEN /\ listener' = ListenerOf(gameOver', direction')
                     /\ gameInterval(TRUE, IntervalActive', score')
                     /\ moveSnakeClosure(IntervalActive',
                                         ClosureOf(direction', food',
                                                   highScoreProp', snake'))
                ELSE UNCHANGED <<listener, interval, closure>>
        ELSE UNCHANGED <<pending, effectsPending, listener, interval, closure,
                         lanes>>

KeyDown == \E k \in Keys : KeyPress(k)

Next == Tick \/ Render \/ FlushEffects \/ RunTimeout \/ KeyDown

Spec == Init /\ [][Next]_vars

\* ------------------------------------------------------------- SpecGrown
\* The game of Spec taken up later, in a state a game reaches: two foods have
\* been eaten, the snake of three segments has turned left below the top row
\* and nothing is outstanding. The food is next to the head, in front of it,
\* or far away. The last render, of a move, changed the snake: React still
\* holds its lanes. ticks counts the interval callbacks from here.
GrownSnake == <<Position(20, 1), Position(21, 1), Position(21, 2)>>

GrownDirection == "LEFT"

GrownFoods == {Position(20, 2), Position(5, 5)}

InitGrown ==
  /\ snake = GrownSnake
  /\ food \in GrownFoods
  /\ direction = GrownDirection
  /\ gameOver = FALSE
  /\ score = 20
  /\ isPaused = FALSE
  /\ highScore \in InitialHighScores
  /\ onHighScoreCalls = <<>>
  /\ timeouts = <<>>
  /\ ticks = 0
  /\ mounted = TRUE
  /\ interval = currentSpeed(20)
  /\ highScoreProp = highScore
  /\ pending = <<>>
  /\ effectsPending = FALSE
  /\ listener = ListenerOf(FALSE, GrownDirection)
  /\ closure = ClosureOf(GrownDirection, food, highScore, snake)
  /\ lanes = TRUE
  /\ InitSpeedIdle
  /\ InitTerminal

GrownTick ==
  /\ ticks < MaxGrownTicks
  /\ ticks' = ticks + 1
  /\ IntervalCallback

NextGrown == GrownTick \/ Render \/ FlushEffects \/ RunTimeout \/ KeyDown

SpecGrown == InitGrown /\ [][NextGrown]_vars

\* -------------------------------------------------------------- SpecFull
\* The game of Spec taken up in a state a game reaches when the food comes up
\* in front of the head every time: the snake has wound along the rows of the
\* grid, from its tail on (0,0) left to right on the even rows and right to
\* left on the odd ones, and fills the grid but for the last cell of the
\* bottom row, where the food is. Nothing is outstanding; the last render, of
\* a move, changed the snake, so React still holds its lanes. ticks counts
\* the interval callbacks from here.
\* Cell n (1..GRID_WIDTH * GRID_HEIGHT) of the way along the rows.
RowWiseCell(n) ==
  LET row == (n - 1) \div GRID_WIDTH
      col == (n - 1) % GRID_WIDTH
  IN Position(IF row % 2 = 0 THEN col ELSE GRID_WIDTH - 1 - col, row)

NearlyFullSnake ==
  [i \in 1..(GRID_WIDTH * GRID_HEIGHT - 1) |->
     RowWiseCell(GRID_WIDTH * GRID_HEIGHT - i)]

LastFreeCell == RowWiseCell(GRID_WIDTH * GRID_HEIGHT)

InitFull ==
  /\ snake = NearlyFullSnake
  /\ food = LastFreeCell
  /\ direction = "RIGHT"
  /\ gameOver = FALSE
  /\ score = 10 * (Len(NearlyFullSnake) - 1)
  /\ isPaused = FALSE
  /\ highScore \in InitialHighScores
  /\ onHighScoreCalls = <<>>
  /\ timeouts = <<>>
  /\ ticks = 0
  /\ mounted = TRUE
  /\ interval = currentSpeed(score)
  /\ highScoreProp = highScore
  /\ pending = <<>>
  /\ effectsPending = FALSE
  /\ listener = ListenerOf(FALSE, "RIGHT")
  /\ closure = ClosureOf("RIGHT", food, highScore, snake)
  /\ lanes = TRUE
  /\ InitSpeedIdle
  /\ InitTerminal

FullTick ==
  /\ ticks < MaxFullTicks
  /\ ticks' = ticks + 1
  /\ IntervalCallback

NextFull == FullTick \/ Render \/ FlushEffects \/ RunTimeout \/ KeyDown

SpecFull == InitFull /\ [][NextFull]_vars

\* ------------------------------------------------------------- SpecSpeed
\* The scores of a game that has eaten at most MaxSpeedFoods foods.
SpeedScores == {10 * i : i \in 0..MaxSpeedFoods}

InitSpeed ==
  /\ InitGame
  /\ InitTerminal
  /\ speedArgs \in SpeedScores \X SpeedScores
  /\ speedOut = <<>>

\* const currentSpeed = Math.max(...) of a render, for two scores
EvaluateSpeed ==
  /\ speedOut = <<>>
  /\ speedOut' = <<currentSpeed(speedArgs[1]), currentSpeed(speedArgs[2])>>
  /\ UNCHANGED <<speedArgs, gameVars, termVars>>

NextSpeed == EvaluateSpeed

SpecSpeed == InitSpeed /\ [][NextSpeed]_vars

\* ---------------------------------------------------------- SpecTerminal
\* The command line of TerminalCard. A string is the sequence of its
\* characters.
availableCommands ==
  <<<<"l", "s">>,
    <<"w", "h", "o", "a", "m", "i">>,
    <<"c", "a", "t", " ", "a", "b", "o", "u", "t", ".", "t", "x", "t">>,
    <<"c", "a", "t", " ", "h", "e", "l", "p", ".", "t", "x", "t">>,
    <<"c", "a", "t", " ", "s", "k", "i", "l", "l", "s", ".", "t", "x", "t">>,
    <<"c", "a", "t", " ", "l", "i", "n", "k", "s", ".", "j", "s", "o", "n">>,
    <<"c", "l", "e", "a", "r">>>>

\* The commands executeCommand has an output for (its case labels but
\* "clear" and "").
OutputCommands ==
  {<<"l", "s">>,
   <<"w", "h", "o", "a", "m", "i">>,
   <<"c", "a", "t", " ", "a", "b", "o", "u", "t", ".", "t", "x", "t">>,
   <<"c", "a", "t", " ", "h", "e", "l", "p", ".", "t", "x", "t">>,
   <<"c", "a", "t", " ", "s", "k", "i", "l", "l", "s", ".", "t", "x", "t">>,
   <<"c", "a", "t", " ", "l", "i", "n", "k", "s", ".", "j", "s", "o", "n">>}

\* A character outside ASCII is written as the name of its code point. The
\* capitals of ASCII and Latin-1, and the two capitals outside them whose
\* small letter is in ASCII or Latin-1 (KELVIN SIGN, ANGSTROM SIGN).
UpperCase ==
  <<"A", "B", "C", "D", "E", "F", "G", "H", "I", "J", "K", "L", "M", "N",
    "O", "P", "Q", "R", "S", "T", "U", "V", "W", "X", "Y", "Z", "U+00C0",
    "U+00C1", "U+00C2", "U+00C3", "U+00C4", "U+00C5", "U+00C6", "U+00C7",
    "U+00C8", "U+00C9", "U+00CA", "U+00CB", "U+00CC", "U+00CD", "U+00CE",
    "U+00CF", "U+00D0", "U+00D1", "U+00D2", "U+00D3", "U+00D4", "U+00D5",
    "U+00D6", "U+00D8", "U+00D9", "U+00DA", "U+00DB", "U+00DC", "U+00DD",
    "U+00DE", "U+212A", "U+212B">>

\* Their small letters, in the same order.
LowerCase ==
  <<"a", "b", "c", "d", "e", "f", "g", "h", "i", "j", "k", "l", "m", "n",
    "o", "p", "q", "r", "s", "t", "u", "v", "w", "x", "y", "z", "U+00E0",
    "U+00E1", "U+00E2", "U+00E3", "U+00E4", "U+00E5", "U+00E6", "U+00E7",
    "U+00E8", "U+00E9", "U+00EA", "U+00EB", "U+00EC", "U+00ED", "U+00EE",
    "U+00EF", "U+00F0", "U+00F1", "U+00F2", "U+00F3", "U+00F4", "U+00F5",
    "U+00F6", "U+00F8", "U+00F9", "U+00FA", "U+00FB", "U+00FC", "U+00FD",
    "U+00FE", "k", "U+00E5">>

\* The small form of one character: one character, or two for U+0130
\* (capital I with dot above: i and the combining dot U+0307); a character
\* that is no capital is its own small form.
LowerCaseOf(c) ==
  IF c = "U+0130"
  THEN <<"i", "U+0307">>
  ELSE IF \E j \in 1..Len(UpperCase) : UpperCase[j] = c
  THEN <<LowerCase[CHOOSE j \in 1..Len(UpperCase) : UpperCase[j] = c]>>
  ELSE <<c>>

\* String.prototype.toLowerCase, on strings of ASCII and Latin-1 characters,
\* white space and the three capitals above
RECURSIVE toLowerCase(_)
toLowerCase(str) ==
  IF str = <<>>
  THEN <<>>
  ELSE LowerCaseOf(Head(str)) \o toLowerCase(Tail(str))

\* The characters String.prototype.trim removes: WhiteSpace and
\* LineTerminator of ECMAScript (tab, line feed, vertical tab, form feed,
\* carriage return, space, no-break space, the space separators of Unicode,
\* line and paragraph separator, byte order mark).
WhiteSpace ==
  {"\t", "\n", "U+000B", "\f", "\r", " ", "U+00A0", "U+1680", "U+2000",
   "U+2001", "U+2002", "U+2003", "U+2004", "U+2005", "U+2006", "U+2007",
   "U+2008", "U+2009", "U+200A", "U+2028", "U+2029", "U+202F", "U+205F",
   "U+3000", "U+FEFF"}

RECURSIVE trimStart(_)
trimStart(str) ==
  IF str # <<>> /\ Head(str) \in WhiteSpace THEN trimStart(Tail(str)) ELSE str

RECURSIVE trimEnd(_)
trimEnd(str) ==
  IF str # <<>> /\ str[Len(str)] \in WhiteSpace
  THEN trimEnd(SubSeq(str, 1, Len(str) - 1))
  ELSE str

\* String.prototype.trim
trim(str) == trimEnd(trimStart(str))

\* String.prototype.startsWith
startsWith(str, prefix) ==
  /\ Len(prefix) <= Len(str)
  /\ SubSeq(str, 1, Len(prefix)) = prefix

\* array[i] for an index i of the array, counted from 0
At(array, i) == array[i + 1]

\* <p>bash: {cmd}: command not found</p>
CommandNotFound(cmd) ==
  <<"b", "a", "s", "h", ":", " ">> \o cmd \o
  <<":", " ", "c", "o", "m", "m", "a", "n", "d", " ", "n", "o", "t", " ", "f", "o", "u", "n", "d">>

\* The output of executeCommand for a command that has one: the command
\* stands for the element its case builds.
OutputOf(cmd, trimmedCmd) ==
  IF trimmedCmd \in OutputCommands THEN trimmedCmd ELSE CommandNotFound(cmd)

executeCommand(cmd) ==
  LET trimmedCmd == toLowerCase(trim(cmd))
  IN CASE trimmedCmd = <<"c", "l", "e", "a", "r">> ->
            /\ commandHistory' = <<>>
            /\ currentCommand' = <<>>
            /\ UNCHANGED <<inputHistory, historyIndex>>
       [] trimmedCmd = <<>> ->
            UNCHANGED termVars
       [] OTHER ->
            /\ IF trimmedCmd # <<>>
               THEN /\ inputHistory' = Append(inputHistory, trimmedCmd)
                    /\ historyIndex' = -1
               ELSE UNCHANGED <<inputHistory, historyIndex>>
            /\ commandHistory' =
                 Append(commandHistory,
                        [command |-> cmd, output |-> OutputOf(cmd, trimmedCmd)])
            /\ currentCommand' = <<>>

handleTabComplete ==
  LET matches == SelectSeq(availableCommands,
                           LAMBDA cmd : startsWith(cmd, toLowerCase(currentCommand)))
  IN /\ currentCommand' = IF Len(matches) = 1 THEN matches[1] ELSE currentCommand
     /\ UNCHANGED <<commandHistory, inputHistory, historyIndex>>

\* ArrowUp going to the newest entry wherever it is
newIndexUpToNewest == Len(inputHistory) - 1

\* const newIndex of the ArrowUp branch
newIndexUp ==
  IF historyIndex = -1
  THEN Len(inputHistory) - 1
  ELSE IF historyIndex - 1 > 0 THEN historyIndex - 1 ELSE 0

\* const newIndex of the ArrowDown branch
newIndexDown == historyIndex + 1

\* handleKeyDown of TerminalCard
terminalHandleKeyDown(key) ==
  CASE key = "Enter" -> executeCommand(currentCommand)
    [] key = "Tab" -> handleTabComplete
    [] key = "ArrowUp" ->
         IF Len(inputHistory) > 0
         THEN /\ historyIndex' = newIndexUp
              /\ currentCommand' = At(inputHistory, newIndexUp)
              /\ UNCHANGED <<commandHistory, inputHistory>>
         ELSE UNCHANGED termVars
    [] key = "ArrowDown" ->
         IF historyIndex # -1
         THEN IF newIndexDown >= Len(inputHistory)
              THEN /\ historyIndex' = -1
                   /\ currentCommand' = <<>>
                   /\ UNCHANGED <<commandHistory, inputHistory>>
              ELSE /\ historyIndex' = newIndexDown
                   /\ currentCommand' = At(inputHistory, newIndexDown)
                   /\ UNCHANGED <<commandHistory, inputHistory>>
         ELSE UNCHANGED termVars
    [] OTHER -> UNCHANGED termVars

\* The keys pressed in the input: the four handled keys and a character key.
TerminalKeys == {"Enter", "Tab", "ArrowUp", "ArrowDown", "a"}

\* The values the input takes by typing or pasting: empty, a space, a form
\* feed, "clear" as it is, with capitals and blanks around it, and in
\* capitals between an ideographic space and a no-break space, a command
\* with capitals and blanks around it, the prefix of one command, an unknown
\* command, the KELVIN SIGN.
TypedValues ==
  {<<>>,
   <<" ">>,
   <<"\f">>,
   <<" ", "L", "S", " ">>,
   <<"c", "l", "e", "a", "r">>,
   <<" ", "C", "l", "e", "a", "r", " ">>,
   <<"U+3000", "C", "L", "E", "A", "R", "U+00A0">>,
   <<"w">>,
   <<"x", " ", "y">>,
   <<"U+212A">>}

\* onChange={(e) => setCurrentCommand(e.target.value)}
OnChange(value) ==
  /\ currentCommand' = value
  /\ UNCHANGED <<commandHistory, inputHistory, historyIndex>>
  /\ UNCHANGED <<gameVars, speedVars>>

\* onKeyDown={handleKeyDown}; the model executes no command that would be
\* entry MaxHistory + 1 of inputHistory.
TerminalKeyPress(key) ==
  /\ terminalHandleKeyDown(key)
  /\ Len(inputHistory') <= MaxHistory
  /\ UNCHANGED <<gameVars, speedVars>>

Typing == \E value \in TypedValues : OnChange(value)

TerminalKeyDown == \E key \in TerminalKeys : TerminalKeyPress(key)

NextTerminal == Typing \/ TerminalKeyDown

SpecTerminal == Init /\ [][NextTerminal]_vars

\* ================================================================ claims
Cells(s) == {s[i] : i \in 1..Len(s)}

OppositePairs ==
  {<<"UP", "DOWN">>, <<"DOWN", "UP">>, <<"LEFT", "RIGHT">>, <<"RIGHT", "LEFT">>}

\* The update of one tick, and nothing else, is queued: the next render
\* commits that tick's move from the committed snake.
MoveQueued == Len(pending) = 1 /\ pending[1].kind = "setSnake"

\* The score and food update of one eating tick, and nothing else, is queued.
FoodUpdateQueued == Len(pending) = 2 /\ pending[1].kind = "setScore"

\* The game-over update of one colliding tick, and nothing else, is queued.
GameOverQueued == Len(pending) = 1 /\ pending[1].kind = "setGameOver"

\* The updater of a tick runs in the callback itself: React holds no
\* unrendered update of the component, so none is queued.
UpdaterInCallback == ~lanes /\ IntervalCallback

\* The updater of a tick runs in the render of its update, the one queued.
UpdaterInRender == MoveQueued /\ ~pending[1].hasEagerState /\ Render

\* The render of the update of a tick whose updater has run in the callback.
EagerStateRendered == MoveQueued /\ pending[1].hasEagerState /\ Render

\* The step in which the move of a tick is made: its updater runs.
Move == UpdaterInCallback \/ UpdaterInRender

\* The direction of that move.
TickDirection ==
  IF pending = <<>> THEN closure.direction ELSE pending[1].closure.direction

\* The snake the updater of that move returned: the snake the render commits,
\* the snake queued by the callback, or, the callback having queued nothing,
\* the snake as it was.
MovedSnake ==
  IF pending # <<>>
  THEN snake'
  ELSE IF pending' # <<>> THEN pending'[1].eagerState ELSE snake

\* The cell next to the head in direction dir.
FrontOf(dir) ==
  [x |-> snake[1].x + (CASE dir = "LEFT" -> -1
                         [] dir = "RIGHT" -> 1
                         [] OTHER -> 0),
   y |-> snake[1].y + (CASE dir = "UP" -> -1
                         [] dir = "DOWN" -> 1
                         [] OTHER -> 0)]

\* The cell the queued move takes the head to.
Front == FrontOf(TickDirection)

InGrid(c) == c.x >= 0 /\ c.x < 30 /\ c.y >= 0 /\ c.y < 15

FrontIsFree == InGrid(Front) /\ Front \notin Cells(snake)

FoodTimeoutDue == timeouts # <<>> /\ timeouts[1].kind = "food"

GameOverTimeoutDue == timeouts # <<>> /\ timeouts[1].kind = "gameOver"

\* Nothing a tick has started is outstanding: no queued update, no timeout,
\* no commit without its effects.
Settled == pending = <<>> /\ timeouts = <<>> /\ ~effectsPending

\* C1: while the game is not over, no two segments of the snake are on the
\* same cell.
C1_NoTwoSegmentsShareACell ==
  ~gameOver =>
    \A i, j \in 1..Len(snake) : i # j => snake[i] # snake[j]

\* A snake of four segments that has eaten and turned, game running.
C1_Witness ==
  /\ ~gameOver
  /\ Len(snake) = 4
  /\ snake[1].x # snake[3].x
  /\ snake[1].y # snake[3].y

\* C2: in every reachable state the food is on no segment of the snake.
C2_FoodNeverOnSnake == food \notin Cells(snake)

\* C3: a request for the opposite of the current direction leaves the
\* direction as it is; any other direction request while the game is not over
\* sets the direction to the requested one.
C3_DirectionRequest ==
  [][\A k \in Keys :
       \/ KeyDirection(k) \notin Direction
       \/ IF <<direction, KeyDirection(k)>> \in OppositePairs
          THEN direction' = direction
          ELSE ~gameOver => direction' = KeyDirection(k)
       \/ ~KeyPress(k)]_vars

\* Before any tick the snake has been turned to RIGHT, which takes two
\* accepted requests (UP or DOWN, then RIGHT) from LEFT.
C3_Witness ==
  /\ ticks = 0
  /\ direction = "RIGHT"
  /\ snake = GrownSnake
  /\ ~gameOver

\* The direction of the move that took the head from cell b to cell a.
MoveDirection(a, b) ==
  CASE a.x = b.x /\ a.y = b.y - 1 -> "UP"
    [] a.x = b.x /\ a.y = b.y + 1 -> "DOWN"
    [] a.x = b.x - 1 /\ a.y = b.y -> "LEFT"
    [] a.x = b.x + 1 /\ a.y = b.y -> "RIGHT"
    [] OTHER -> "NONE"

\* C4: the direction a tick uses is never the opposite of the direction the
\* tick before it used, so a snake of two or more segments never moves its
\* head onto the segment right behind the head.
C4_NoReversalBetweenTicks ==
  [][(Move /\ Len(snake) >= 2) =>
       <<MoveDirection(snake[1], snake[2]), TickDirection>> \notin OppositePairs]_vars

\* C5: the move of a tick onto the food cell prepends the new head and keeps
\* the tail (length + 1) and defers the update that adds exactly 10 to the
\* score; the move of a tick onto a free cell that is not the food cell keeps
\* the length and defers no such update; the score changes by 10 in the
\* deferred update of an eating tick, or to 0 in a reset, and not otherwise.
\* Five ticks from the initial state with no turn give score 10 and length 2.
C5_EatingGrowsByOneAndScoresTen ==
  /\ [][/\ (Move /\ FrontIsFree /\ Front = food) =>
             /\ MovedSnake = <<Front>> \o snake
             /\ score' = score
             /\ timeouts' = Append(timeouts, timeouts'[Len(timeouts')])
             /\ timeouts'[Len(timeouts')].kind = "food"
        /\ (Move /\ FrontIsFree /\ Front # food) =>
             /\ Len(MovedSnake) = Len(snake)
             /\ MovedSnake[1] = Front
             /\ score' = score
             /\ timeouts' = timeouts
        /\ EagerStateRendered =>
             /\ snake' = pending[1].eagerState
             /\ score' = score
             /\ timeouts' = timeouts
        /\ (FoodTimeoutDue /\ mounted /\ RunTimeout) =>
             /\ Len(pending') = Len(pending) + 2
             /\ pending'[Len(pending) + 1].kind = "setScore"
             /\ UNCHANGED <<snake, score>>
        /\ (FoodUpdateQueued /\ Render) =>
             /\ score' = score + 10
             /\ snake' = snake
        /\ score' # score =>
             \/ score' = score + 10 /\ Render
             \/ gameOver /\ score' = 0]_vars
  /\ []((mounted /\ ticks = 5 /\ snake[1] = [x |-> 20, y |-> 7]
          /\ timeouts = <<>> /\ pending = <<>>) =>
          (score = 10 /\ Len(snake) = 2))

\* C6: the move of a tick whose new head is outside the grid or on a segment
\* of the pre-move snake leaves snake, food, direction and score as they were
\* and defers the update that takes the game to Over (the timeout queues it
\* unless the game is over by then); the timeout and the render of that
\* update change none of them either.
C6_CollisionOnlySetsOver ==
  [][/\ (Move /\ ~FrontIsFree) =>
         /\ UNCHANGED <<snake, food, direction, score>>
         /\ MovedSnake = snake
         /\ timeouts' = Append(timeouts, timeouts'[Len(timeouts')])
         /\ timeouts'[Len(timeouts')].kind = "gameOver"
     /\ (GameOverTimeoutDue /\ mounted /\ RunTimeout) =>
         /\ \/ pending' = Append(pending, SetGameOver)
            \/ gameOver /\ pending' = pending
         /\ UNCHANGED <<snake, food, direction, score>>
     /\ (GameOverQueued /\ Render) =>
         /\ gameOver'
         /\ UNCHANGED <<snake, food, direction, score>>
     /\ (gameOver' /\ ~gameOver) => Render
     /\ (Move /\ FrontIsFree) =>
         (timeouts' = timeouts \/ timeouts'[Len(timeouts')].kind = "food")]_vars

\* The game ended with the head in the top row, facing the wall.
C6_Witness ==
  /\ gameOver
  /\ direction = "UP"
  /\ snake[1].y = 0
  /\ Len(snake) = 3
  /\ score = 20

\* C7: a collision with a snake of length L reports the final score
\* 10 * L - 10; onHighScore is called with that value exactly when it is
\* greater than the caller's high score, and at no other step.
C7_FinalScoreAndHighScoreCallback ==
  [][/\ (Move /\ ~FrontIsFree) =>
         timeouts'[Len(timeouts')].finalScore = 10 * Len(snake) - 10
     /\ (GameOverTimeoutDue /\ RunTimeout) =>
         onHighScoreCalls' =
              IF timeouts[1].finalScore > highScore
              THEN Append(onHighScoreCalls, timeouts[1].finalScore)
              ELSE onHighScoreCalls
     /\ onHighScoreCalls' # onHighScoreCalls =>
         (GameOverTimeoutDue /\ RunTimeout)]_vars

\* C8: from a pause toggle to the next one, that is from a state with
\* isPaused to a state with isPaused, snake, food, score and gameOver do not
\* change.
C8_NoChangeWhilePaused ==
  [][(isPaused /\ isPaused') => UNCHANGED <<snake, food, score, gameOver>>]_vars

\* C9: resetGame, which a restart request calls when the registered listener
\* is that of the game that is over, sets every cell of the state to its
\* initial value, and such a request can be made once the effects of the
\* commit of gameOver have run.
C9_ResetRestoresInitialState ==
  /\ [][\A k \in {"r", "R"} :
          (gameOver /\ listener.gameOver /\ KeyPress(k)) =>
            /\ snake' = <<[x |-> 15, y |-> 7]>>
            /\ food' = [x |-> 20, y |-> 7]
            /\ direction' = "RIGHT"
            /\ score' = 0
            /\ isPaused' = FALSE
            /\ gameOver' = FALSE]_vars
  /\ []((mounted /\ gameOver /\ ~effectsPending) =>
          (listener.gameOver /\ ENABLED (KeyPress("r") /\ ~gameOver')))

\* A game has ended with a reported score and has been restarted.
C9_Witness ==
  /\ ~gameOver
  /\ onHighScoreCalls # <<>>
  /\ snake = <<[x |-> 15, y |-> 7]>>
  /\ food = [x |-> 20, y |-> 7]
  /\ direction = "RIGHT"
  /\ score = 0
  /\ ~isPaused
  /\ Settled

\* C10: while the game is over no step changes snake, food, direction, score,
\* isPaused or gameOver, except a restart request, which is the only step
\* that leaves Over.
C10_OverUntilReset ==
  [][gameOver =>
       \/ UNCHANGED game
       \/ (KeyPress("r") \/ KeyPress("R")) /\ ~gameOver']_vars


\* C11: for a score s that is a multiple of 10, currentSpeed(s) is
\* 150 - s / 2 up to s = 180 and 60 from there on (that is
\* max(60, 150 - 5 * floor(s / 10))); it does not increase with s and lies
\* between 60 and 150.
C11_CurrentSpeed ==
  speedOut # <<>> =>
    LET a == speedArgs[1]
        b == speedArgs[2]
        fa == speedOut[1]
        fb == speedOut[2]
    IN /\ fa = (IF a >= 180 THEN 60 ELSE 150 - a \div 2)
       /\ a <= b => fb <= fa
       /\ fa >= 60
       /\ fa <= 150

\* currentSpeed evaluated at the score 200, where the floor applies, and at 0.
C11_Witness ==
  /\ speedArgs = <<200, 0>>
  /\ speedOut = <<60, 150>>

\* The cells of the grid.
GridCells ==
  {c \in [x : 0..(GRID_WIDTH - 1), y : 0..(GRID_HEIGHT - 1)] : TRUE}

\* C12: whenever food generation is about to run, some cell of the grid is
\* on no segment of the snake its occupancy test looks at, and the deferred
\* update can complete, also when the snake fills the 30x15 grid or all of
\* it but one cell.
C12_FoodGenerationTerminates ==
  FoodTimeoutDue =>
    /\ \E c \in GridCells : c \notin Cells(timeouts[1].snake)
    /\ ENABLED RunTimeout

\* The tick has eaten the last free cell: the snake fills the grid and food
\* generation is due.
C12_Witness ==
  /\ FoodTimeoutDue
  /\ Len(snake) = GRID_WIDTH * GRID_HEIGHT


\* C13: once the component is unmounted, no callback of the game changes the
\* game state or calls onHighScore.
C13_NoCallbackAfterTeardown ==
  [][~mounted =>
       /\ UNCHANGED game
       /\ onHighScoreCalls' = onHighScoreCalls]_vars

\* C14: the food cell the deferred update of an eating tick stores is on no
\* segment of the grown snake, the new head included.
C14_NewFoodOffGrownSnake ==
  [][(FoodUpdateQueued /\ Render) => food' \notin Cells(snake)]_vars

\* The six state cells hold their initial values after the step.
ReinitialisedNext ==
  /\ snake' = <<[x |-> 15, y |-> 7]>>
  /\ food' = [x |-> 20, y |-> 7]
  /\ direction' = "RIGHT"
  /\ score' = 0
  /\ isPaused' = FALSE
  /\ gameOver' = FALSE

C16_HeadOntoTailEndsGame ==
  [][(Move /\ Len(snake) >= 2 /\ Front = snake[Len(snake)]) =>
       /\ snake' = snake
       /\ MovedSnake = snake
       /\ timeouts' = Append(timeouts, timeouts'[Len(timeouts')])
       /\ timeouts'[Len(timeouts')].kind = "gameOver"
       /\ timeouts'[Len(timeouts')].finalScore = 10 * Len(snake) - 10]_vars

\* A snake of four segments has turned round a square and its head faces its
\* tail: the move has scheduled the game-over update.
C16_Witness ==
  /\ GameOverTimeoutDue
  /\ Len(snake) = 4
  /\ FrontOf(direction) = snake[4]
  /\ FrontOf(direction) # snake[2]

\* The period the claim expects for a score: 150 less 5 for every 10 points,
\* not below 60.
ExpectedPeriod(sc) == IF sc >= 180 THEN 60 ELSE 150 - 5 * (sc \div 10)

Running == mounted /\ ~gameOver /\ ~isPaused

\* C17: every interval callback comes from an interval whose period is that
\* of the score at the time of the callback: a change of the score replaces
\* the interval before the next callback fires.
C17_TimerPeriodFollowsScore ==
  [][IntervalCallback => interval = ExpectedPeriod(score)]_vars

\* C18: with no deferred update outstanding the score of the mounted game is
\* 10 for every segment but the first.
C18_ScoreTracksLength ==
  (mounted /\ timeouts = <<>> /\ pending = <<>>) =>
    score = 10 * (Len(snake) - 1)

\* C19: in every reachable state isPaused and gameOver are not both true.
C19_NeverPausedAndOver == ~(isPaused /\ gameOver)


\* The command lines that are empty, white space only, or "clear" in any
\* case and with any white space around it, among those typed.
BlankOrClear ==
  {<<>>, <<" ">>, <<"\f">>,
   <<"c", "l", "e", "a", "r">>,
   <<" ", "C", "l", "e", "a", "r", " ">>,
   <<"U+3000", "C", "L", "E", "A", "R", "U+00A0">>}

\* C20: historyIndex is -1 or an index of inputHistory; ArrowUp on a
\* non-empty history goes from -1 to the newest entry and otherwise one entry
\* older, staying at index 0, and shows that entry; ArrowDown from an entry
\* goes one entry newer and shows it, and from the newest entry sets
\* historyIndex to -1 and empties the command line; Enter on "clear" or on an
\* empty or blank line leaves inputHistory as it is, so inputHistory holds
\* neither "clear" nor "".
C20_HistoryIndexAndHistory ==
  /\ [](historyIndex >= -1 /\ historyIndex < Len(inputHistory))
  /\ [](\A i \in 1..Len(inputHistory) :
          /\ inputHistory[i] # <<>>
          /\ inputHistory[i] # <<"c", "l", "e", "a", "r">>)
  /\ [][/\ (TerminalKeyPress("ArrowUp") /\ inputHistory # <<>>) =>
             /\ historyIndex' = (IF historyIndex = -1
                                 THEN Len(inputHistory) - 1
                                 ELSE IF historyIndex = 0 THEN 0
                                 ELSE historyIndex - 1)
             /\ currentCommand' = inputHistory[historyIndex' + 1]
             /\ inputHistory' = inputHistory
        /\ (TerminalKeyPress("ArrowDown") /\ historyIndex # -1) =>
             /\ inputHistory' = inputHistory
             /\ IF historyIndex = Len(inputHistory) - 1
                THEN historyIndex' = -1 /\ currentCommand' = <<>>
                ELSE /\ historyIndex' = historyIndex + 1
                     /\ currentCommand' = inputHistory[historyIndex' + 1]
        /\ (TerminalKeyPress("Enter") /\ currentCommand \in BlankOrClear) =>
             inputHistory' = inputHistory
        /\ inputHistory' # inputHistory =>
             /\ TerminalKeyPress("Enter")
             /\ Len(inputHistory') = Len(inputHistory) + 1
             /\ historyIndex' = -1]_vars

\* Three commands were executed, " Clear " after them, and ArrowUp pressed
\* three times and ArrowDown once: the middle entry of the history is shown.
C20_Witness ==
  /\ Len(inputHistory) = 3
  /\ commandHistory = <<>>
  /\ historyIndex = 1
  /\ currentCommand = inputHistory[2]
  /\ inputHistory[1] = <<"l", "s">>
  /\ inputHistory[3] = <<"x", " ", "y">>
====
